---------------------------- MODULE Spec2Model ----------------------------
(***************************************************************************)
(* The five pulsing-dot marker factories of dot-options-cursor.js as one   *)
(* state machine.  A behaviour follows ONE marker instance: Init is the    *)
(* object a factory returns, the actions are the calls the host map makes  *)
(* on it (onAdd, render) and the host's assignment to its stopPulse field. *)
(*                                                                         *)
(* Time is performance.now() in whole milliseconds.  Every render() call   *)
(* reads the clock, so the time that passed since the previous call is an  *)
(* input of the render actions.                                            *)
(*                                                                         *)
(* An image (the canvas bitmap, ImageData.data, this.data) is a record     *)
(*   [len |-> number of bytes, px |-> <<centre, mid, corner>>]             *)
(* where px holds the RGBA bytes of three sample pixels: the centre of the *)
(* marker, a pixel MidDistance px away from the centre, and the corner.    *)
(*                                                                         *)
(* A colour is <<r, g, b, a>> with a in hundredths (the CSS alpha * 100).  *)
(***************************************************************************)
EXTENDS Integers, Sequences, FiniteSets

(***************************************************************************)
(* Program constants.                                                      *)
(***************************************************************************)
size == 75

updateIntervalLow == 100

frameCount == 20

frameInterval == 100

updateIntervalOpacity == 50

duration == 2000

(***************************************************************************)
(* Bounds of the model.                                                    *)
(***************************************************************************)
\* render() calls per behaviour of Spec
MaxCalls == 5

\* render() calls per behaviour of SpecPre (more than frameCount)
MaxCallsPre == 23

\* distance (px) of the mid sample pixel from the centre of the marker
MidDistance == 15

\* milliseconds between two consecutive render() calls
Gaps == {0, 20, 60, 100}

PreGaps == {60, 100}

\* clock value at which the instance is constructed
StartTimes == {0, 940, 1900}

Variants == {"static", "lowFrameRate", "preRendered", "opacity", "css"}

ThrottledVariants == {"lowFrameRate", "preRendered", "opacity"}

\* What the identifier `context` denotes inside the onAdd of the
\* pre-rendered and opacity variants.  Neither function declares it (only
\* this.context is assigned), so it resolves in the enclosing scope to
\* whatever the host environment binds there: nothing (a ReferenceError),
\* the 2D context of some other canvas, or the very context onAdd has just
\* stored in this.context.
ContextBindings == {"unbound", "other", "own"}

VARIABLES
    variant,                  \* which factory built the instance
    isCarrierVehicleOnRoute,  \* factory argument
    isGrey,                   \* factory argument
    contextBinding,           \* environment: see ContextBindings
    width, height,            \* this.width, this.height
    data,                     \* this.data
    stopPulse,                \* this.stopPulse
    hasContext,               \* this.context has been created by onAdd
    canvas,                   \* bitmap of the canvas behind this.context
    preRenderedFrames,        \* [isNull, items]: null, or the array of frames
    currentFrame,             \* closure variable of the pre-rendered variant
    lastUpdate,               \* closure variable of the throttled variants
    colors,                   \* the colour set most recently selected
    now,                      \* performance.now() at the latest render() call
    repaints,                 \* calls of mapbox.triggerRepaint() so far
    \* ---- observations of the calls (not program state) ----
    op,                       \* the latest operation
    calls,                    \* render() calls so far
    ret,                      \* what the latest render() returned
    admitted,                 \* the latest render() passed the throttle gate
    prevAdmitted,             \* the render() before it passed the gate
    gap,                      \* ms between the latest two render() calls
    trueReturns,              \* render() calls that returned true
    lastTrue,                 \* clock of the latest true return, -1 if none
    prevTrue,                 \* clock of the true return before it, -1 if none
    setupImage                \* bitmap of this.context's canvas when onAdd ended

vars == <<variant, isCarrierVehicleOnRoute, isGrey, contextBinding, width,
          height, data, stopPulse, hasContext, canvas, preRenderedFrames,
          currentFrame, lastUpdate, colors, now, repaints, op, calls, ret,
          admitted, prevAdmitted, gap, trueReturns, lastTrue, prevTrue,
          setupImage>>

(***************************************************************************)
(* Images and pixels.                                                      *)
(***************************************************************************)
TransparentPixel == <<0, 0, 0, 0>>

\* new Uint8Array(n): n zero bytes
NewUint8Array(n) == [len |-> n, px |-> <<TransparentPixel, TransparentPixel, TransparentPixel>>]

\* data: new Uint8Array(size * size * 4)
InitialData(s) == NewUint8Array(s * s * 4)

\* document.createElement('canvas') with width w and height h: a transparent
\* bitmap of w*h RGBA pixels
NewCanvas(w, h) == NewUint8Array(w * h * 4)

\* context.clearRect(0, 0, w, h) over the whole bitmap
ClearRect(img) == [img EXCEPT !.px = <<TransparentPixel, TransparentPixel, TransparentPixel>>]

\* a faulty variant: the region read back is half as wide as the buffer
GetImageDataHalfWidth(img, w, h) == [len |-> (w \div 2) * h * 4, px |-> img.px]

\* context.getImageData(0, 0, w, h).data: a fresh copy of the w*h pixels
GetImageData(img, w, h) == [len |-> w * h * 4, px |-> img.px]

\* the byte a CSS alpha of h hundredths is stored as; a CSS alpha below 0 is
\* clamped to 0 and above 1 to 1
AlphaByte(h) ==
    IF h <= 0 THEN 0
    ELSE IF h >= 100 THEN 255
    ELSE (255 * h + 50) \div 100

\* the pixel a fill with colour c leaves on a transparent bitmap
FillPixel(c) ==
    IF AlphaByte(c[4]) = 0 THEN TransparentPixel
    ELSE <<c[1], c[2], c[3], AlphaByte(c[4])>>

Visible(img) == \E i \in 1..Len(img.px) : img.px[i][4] > 0

(***************************************************************************)
(* Geometry, in units of 1/400 px.  radius = (size/2)*0.3 and              *)
(* outerRadius = (size/2)*0.7*t + radius with t = tNum/tDen.               *)
(***************************************************************************)
\* distance dist (px) lies inside the outer circle drawn at phase tNum/tDen
InOuterCircle(dist, tNum, tDen) ==
    400 * dist * tDen < size * (140 * tNum + 60 * tDen)

\* distance dist (px) lies inside the inner circle (radius)
InInnerCircle(dist) == 400 * dist < size * 60

\* distance dist (px) lies inside the static outer circle of the opacity
\* variant, outerRadius = (size/2)*0.7
InStaticOuterCircle(dist) == 400 * dist < size * 140

\* the three sample distances: the centre, the mid pixel, and the corner of
\* the bitmap, which lies beyond every circle ((size/2)*sqrt(2) > size*0.7).
\* No sample lies under the 2 px stroke around the inner circle.
SampleDistance(i) ==
    IF i = 1 THEN 0 ELSE IF i = 2 THEN MidDistance ELSE (size * 7) \div 10

(***************************************************************************)
(* Colour selection.                                                       *)
(***************************************************************************)
NoColors == [outer |-> <<>>, inner |-> <<>>, stroke |-> <<>>]

GreyRGB == <<55, 64, 83>>

GreenRGB == <<84, 199, 116>>

RedRGB == <<219, 55, 19>>

WithAlpha(rgb, a) == <<rgb[1], rgb[2], rgb[3], a>>

\* a faulty variant: the route flag is tested before the grey flag
SelectColorsRouteFirst(grey, route, greySet, routeSet, defaultSet) ==
    IF route THEN routeSet ELSE IF grey THEN greySet ELSE defaultSet

\* isGrey ? {...} : isCarrierVehicleOnRoute ? {...} : {...}
SelectColors(grey, route, greySet, routeSet, defaultSet) ==
    IF grey THEN greySet ELSE IF route THEN routeSet ELSE defaultSet

\* the colour literals of the low-frame-rate and pre-rendered variants
PulseColors(grey, route) ==
    SelectColors(grey, route,
        [outer |-> <<55, 64, 83, 60>>, inner |-> <<55, 64, 83, 100>>, stroke |-> <<237, 240, 240, 70>>],
        [outer |-> <<84, 199, 116, 60>>, inner |-> <<84, 199, 116, 100>>, stroke |-> <<84, 199, 116, 100>>],
        [outer |-> <<219, 55, 19, 60>>, inner |-> <<219, 55, 19, 100>>, stroke |-> <<237, 240, 240, 70>>])

\* the colour literals of the opacity variant (outer is opaque)
OpacityColors(grey, route) ==
    SelectColors(grey, route,
        [outer |-> <<55, 64, 83, 100>>, inner |-> <<55, 64, 83, 100>>, stroke |-> <<237, 240, 240, 70>>],
        [outer |-> <<84, 199, 116, 100>>, inner |-> <<84, 199, 116, 100>>, stroke |-> <<84, 199, 116, 100>>],
        [outer |-> <<219, 55, 19, 100>>, inner |-> <<219, 55, 19, 100>>, stroke |-> <<237, 240, 240, 70>>])

\* the hex colour literals of the CSS variant: #374053, #54c774, #db3713, #edf0f0
CSSColors(grey, route) ==
    SelectColors(grey, route,
        [outer |-> <<55, 64, 83, 100>>, inner |-> <<55, 64, 83, 100>>, stroke |-> <<237, 240, 240, 100>>],
        [outer |-> <<84, 199, 116, 100>>, inner |-> <<84, 199, 116, 100>>, stroke |-> <<84, 199, 116, 100>>],
        [outer |-> <<219, 55, 19, 100>>, inner |-> <<219, 55, 19, 100>>, stroke |-> <<237, 240, 240, 100>>])

(***************************************************************************)
(* Drawing.                                                                *)
(***************************************************************************)
\* (0.6 - tNum/tDen).toFixed(2), in hundredths: the nearest hundredth
ToFixed2(tNum, tDen) == (2 * (60 * tDen - 100 * tNum) + tDen) \div (2 * tDen)

\* colors.outer.replace('0.6', (0.6 - t).toFixed(2)): the alpha component of
\* the colour string is the only occurrence of '0.6'.  (In onAdd of the
\* pre-rendered variant the closing parenthesis of this call is missing from
\* the template literal; it is read as the same call as in the low-frame-rate
\* variant.)
FadedOuter(c, tNum, tDen) == WithAlpha(c.outer, ToFixed2(tNum, tDen))

\* the fill style `rgba(219, 55, 19, 0)` used while stopPulse is set
StoppedOuter == <<219, 55, 19, 0>>

\* clearRect, the outer circle at phase tNum/tDen filled with outerFill, then
\* the inner circle filled with colors.inner (opaque)
DrawPulse(img, c, tNum, tDen, outerFill) ==
    [img EXCEPT !.px = [i \in 1..3 |->
        IF InInnerCircle(SampleDistance(i)) THEN FillPixel(c.inner)
        ELSE IF InOuterCircle(SampleDistance(i), tNum, tDen) THEN FillPixel(outerFill)
        ELSE ClearRect(img).px[i]]]

\* the opacity variant's one-off drawing: the outer circle filled with
\* colors.outer, then the inner circle filled with colors.inner, on a canvas
\* that is never cleared
DrawStatic(img, c) ==
    [img EXCEPT !.px = [i \in 1..3 |->
        IF InInnerCircle(SampleDistance(i)) THEN FillPixel(c.inner)
        ELSE IF InStaticOuterCircle(SampleDistance(i)) THEN FillPixel(c.outer)
        ELSE img.px[i]]]

\* the frames onAdd of the pre-rendered variant pushes, frame i at t = i/frameCount
PreRenderFrames(img, c, w, h) ==
    [i \in 1..frameCount |->
        GetImageData(DrawPulse(img, c, i - 1, frameCount, FadedOuter(c, i - 1, frameCount)), w, h)]

(***************************************************************************)
(* The opacity factor 0.3 + 0.7 * Math.sin(t * Math.PI), t = (now % 2000)  *)
(* / 2000.  Math.sin is tabulated to four decimals on the 20 ms grid the   *)
(* clock of the model moves on: SinTable[k + 1] = sin(pi * k / 100).       *)
(***************************************************************************)
SinTable ==
    << 0, 314, 628, 941, 1253, 1564, 1874, 2181, 2487, 2790, 3090, 3387, 3681,
       3971, 4258, 4540, 4818, 5090, 5358, 5621, 5878, 6129, 6374, 6613, 6845,
       7071, 7290, 7501, 7705, 7902, 8090, 8271, 8443, 8607, 8763, 8910, 9048,
       9178, 9298, 9409, 9511, 9603, 9686, 9759, 9823, 9877, 9921, 9956, 9980,
       9995, 10000 >>

\* 10000 * sin(pi * (n % duration) / duration)
Sin1e4(n) ==
    LET k == ((n % duration) * 100) \div duration
    IN  SinTable[(IF k <= 50 THEN k ELSE 100 - k) + 1]

\* a faulty variant: a sawtooth that rises over the whole period
OpacityRamp1e5(n) == 30000 + 35 * (n % duration)

\* 100000 * opacity
Opacity1e5(n) == 30000 + 7 * Sin1e4(n)

\* data[i] = data[i] * opacity, stored in a Uint8ClampedArray (nearest byte)
ScaleAlpha(a, n) == (2 * a * Opacity1e5(n) + 100000) \div 200000

\* the loop over every fourth byte: only the alpha channel is scaled
ApplyOpacity(img, n) ==
    [img EXCEPT !.px = [i \in 1..3 |->
        <<img.px[i][1], img.px[i][2], img.px[i][3], ScaleAlpha(img.px[i][4], n)>>]]

(***************************************************************************)
(* The throttle gate and the repaint request.                              *)
(***************************************************************************)
\* a faulty variant: the clock is compared with the interval, lastUpdate forgotten
SkipFrameIgnoringLast(n, last, interval) == n < interval

\* if (now - lastUpdate < updateInterval) return false;
SkipFrame(n, last, interval) == n - last < interval

\* a faulty variant: the accepted tick is not recorded
StampLastUpdateKept(n, last) == last

\* lastUpdate = now;
StampLastUpdate(n, last) == n

\* a faulty variant: the index wraps one frame early
NextFrameWrapEarly(cur, len) == (cur + 1) % (len - 1)

\* currentFrame = (currentFrame + 1) % this.preRenderedFrames.length;
NextFrame(cur, len) == (cur + 1) % len

\* a faulty variant: the repaint request is left out
TriggerRepaintMissing(n) == n

\* mapbox.triggerRepaint()
TriggerRepaint(n) == n + 1

\* the throttle interval of a variant (none for static and CSS)
IntervalOf(v) ==
    IF v = "lowFrameRate" THEN updateIntervalLow
    ELSE IF v = "preRendered" THEN frameInterval
    ELSE IF v = "opacity" THEN updateIntervalOpacity
    ELSE 0

(***************************************************************************)
(* Init: the object a factory returns.                                     *)
(***************************************************************************)
NullFrames == [isNull |-> TRUE, items |-> <<>>]

Frames(items) == [isNull |-> FALSE, items |-> items]

InitOf(vs, starts) ==
    /\ variant \in vs
    /\ isCarrierVehicleOnRoute \in BOOLEAN
    /\ isGrey \in BOOLEAN
    /\ contextBinding \in
         (IF variant \in {"preRendered", "opacity"} THEN ContextBindings ELSE {"unbound"})
    /\ width = size
    /\ height = size
    /\ data = InitialData(size)
    /\ stopPulse = FALSE
    /\ hasContext = FALSE
    /\ canvas = NewCanvas(size, size)
    /\ preRenderedFrames = NullFrames
    /\ currentFrame = 0
    /\ lastUpdate = 0
    /\ colors = IF variant = "preRendered" THEN PulseColors(isGrey, isCarrierVehicleOnRoute)
                ELSE IF variant = "css" THEN CSSColors(isGrey, isCarrierVehicleOnRoute)
                ELSE NoColors
    /\ now \in starts
    /\ repaints = 0
    /\ op = "new"
    /\ calls = 0
    /\ ret = FALSE
    /\ admitted = FALSE
    /\ prevAdmitted = FALSE
    /\ gap = 0
    /\ trueReturns = 0
    /\ lastTrue = -1
    /\ prevTrue = -1
    /\ setupImage = NewCanvas(size, size)

Init == InitOf(Variants, StartTimes)

InitPre == InitOf({"preRendered"}, {0})

(***************************************************************************)
(* What a render() call leaves in the observation variables: it was made   *)
(* at clock n, d ms after the previous one, passed the gate or not, and    *)
(* returned r.                                                             *)
(***************************************************************************)
Observe(n, d, passed, r) ==
    /\ now' = n
    /\ gap' = d
    /\ op' = "render"
    /\ calls' = calls + 1
    /\ prevAdmitted' = admitted
    /\ admitted' = passed
    /\ ret' = r
    /\ trueReturns' = IF r THEN trueReturns + 1 ELSE trueReturns
    /\ lastTrue' = IF r THEN n ELSE lastTrue
    /\ prevTrue' = IF r THEN lastTrue ELSE prevTrue

Fixed == UNCHANGED <<variant, isCarrierVehicleOnRoute, isGrey, contextBinding, width, height>>

(***************************************************************************)
(* onAdd                                                                   *)
(***************************************************************************)
\* low-frame-rate: a canvas of this.width x this.height, and its 2D context
OnAddLowFrameRate ==
    /\ variant = "lowFrameRate"
    /\ ~hasContext
    /\ hasContext' = TRUE
    /\ canvas' = NewCanvas(width, height)
    /\ setupImage' = NewCanvas(width, height)
    /\ op' = "onAdd"
    /\ Fixed
    /\ UNCHANGED <<data, stopPulse, preRenderedFrames, currentFrame, lastUpdate,
                   colors, now, repaints, calls, ret, admitted, prevAdmitted, gap,
                   trueReturns, lastTrue, prevTrue>>

\* pre-rendered: this.context is created and this.preRenderedFrames set to
\* [] ; the loop then draws through the identifier `context`.  Unbound, the
\* first context.clearRect throws and the array stays empty; bound, all
\* frameCount frames are drawn and pushed (on this.context's canvas when the
\* binding is that context, which then shows the last frame).
OnAddPreRendered ==
    /\ variant = "preRendered"
    /\ ~hasContext
    /\ hasContext' = TRUE
    /\ LET fresh == NewCanvas(width, height)
           frames == PreRenderFrames(fresh, colors, width, height)
       IN  /\ preRenderedFrames' =
                IF contextBinding = "unbound" THEN Frames(<<>>) ELSE Frames(frames)
           /\ canvas' =
                IF contextBinding = "own"
                THEN DrawPulse(fresh, colors, frameCount - 1, frameCount,
                               FadedOuter(colors, frameCount - 1, frameCount))
                ELSE fresh
           /\ setupImage' = canvas'
    /\ op' = "onAdd"
    /\ Fixed
    /\ UNCHANGED <<data, stopPulse, currentFrame, lastUpdate, colors, now, repaints,
                   calls, ret, admitted, prevAdmitted, gap, trueReturns, lastTrue,
                   prevTrue>>

\* opacity: this.context is created, the colours are selected, and the two
\* circles are drawn through the identifier `context`: on this.context's
\* canvas only when the binding is that context.
OnAddOpacity ==
    /\ variant = "opacity"
    /\ ~hasContext
    /\ hasContext' = TRUE
    /\ colors' = OpacityColors(isGrey, isCarrierVehicleOnRoute)
    /\ canvas' =
         IF contextBinding = "own"
         THEN DrawStatic(NewCanvas(width, height), colors')
         ELSE NewCanvas(width, height)
    /\ setupImage' = canvas'
    /\ op' = "onAdd"
    /\ Fixed
    /\ UNCHANGED <<data, stopPulse, preRenderedFrames, currentFrame, lastUpdate, now,
                   repaints, calls, ret, admitted, prevAdmitted, gap, trueReturns,
                   lastTrue, prevTrue>>

(***************************************************************************)
(* The host assigns the stopPulse field.                                   *)
(***************************************************************************)
SetStopPulse(b) ==
    /\ variant \in ThrottledVariants
    /\ stopPulse # b
    /\ stopPulse' = b
    /\ op' = "stopPulse"
    /\ Fixed
    /\ UNCHANGED <<data, hasContext, canvas, preRenderedFrames, currentFrame,
                   lastUpdate, colors, now, repaints, calls, ret, admitted,
                   prevAdmitted, gap, trueReturns, lastTrue, prevTrue, setupImage>>

(***************************************************************************)
(* render.  Each action is one call made d ms after the previous call,     *)
(* while fewer than maxCalls calls have been made.                         *)
(***************************************************************************)
\* static: return false
RenderStatic(d, maxCalls) ==
    /\ variant = "static"
    /\ calls < maxCalls
    /\ Observe(now + d, d, FALSE, FALSE)
    /\ Fixed
    /\ UNCHANGED <<data, stopPulse, hasContext, canvas, preRenderedFrames,
                   currentFrame, lastUpdate, colors, repaints, setupImage>>

\* CSS: return false
RenderCSS(d, maxCalls) ==
    /\ variant = "css"
    /\ calls < maxCalls
    /\ Observe(now + d, d, FALSE, FALSE)
    /\ Fixed
    /\ UNCHANGED <<data, stopPulse, hasContext, canvas, preRenderedFrames,
                   currentFrame, lastUpdate, colors, repaints, setupImage>>

\* low-frame-rate: the gate; then the pulse is drawn on this.context's canvas
\* at phase t = (now % duration) / duration, the outer circle transparent
\* while stopPulse is set, and this.data is read back from the canvas
RenderLowFrameRate(d, maxCalls) ==
    /\ variant = "lowFrameRate"
    /\ hasContext
    /\ calls < maxCalls
    /\ LET n == now + d IN
       IF SkipFrame(n, lastUpdate, updateIntervalLow)
       THEN /\ Observe(n, d, FALSE, FALSE)
            /\ UNCHANGED <<data, canvas, lastUpdate, colors, repaints>>
       ELSE /\ lastUpdate' = StampLastUpdate(n, lastUpdate)
            /\ colors' = PulseColors(isGrey, isCarrierVehicleOnRoute)
            /\ canvas' = DrawPulse(canvas, colors', n % duration, duration,
                            IF stopPulse THEN StoppedOuter
                            ELSE FadedOuter(colors', n % duration, duration))
            /\ data' = GetImageData(canvas', width, height)
            /\ repaints' = TriggerRepaint(repaints)
            /\ Observe(n, d, TRUE, TRUE)
    /\ Fixed
    /\ UNCHANGED <<stopPulse, hasContext, preRenderedFrames, currentFrame, setupImage>>

\* pre-rendered: the gate; then, when frames exist, this.data becomes the
\* current frame and the index moves on cyclically; stopPulse is not read
RenderPreRendered(d, maxCalls) ==
    /\ variant = "preRendered"
    /\ hasContext
    /\ calls < maxCalls
    /\ LET n == now + d IN
       IF SkipFrame(n, lastUpdate, frameInterval)
       THEN /\ Observe(n, d, FALSE, FALSE)
            /\ UNCHANGED <<data, currentFrame, lastUpdate, repaints>>
       ELSE /\ lastUpdate' = StampLastUpdate(n, lastUpdate)
            /\ IF ~preRenderedFrames.isNull /\ Len(preRenderedFrames.items) > 0
               THEN /\ data' = preRenderedFrames.items[currentFrame + 1]
                    /\ currentFrame' = NextFrame(currentFrame, Len(preRenderedFrames.items))
                    /\ repaints' = TriggerRepaint(repaints)
                    /\ Observe(n, d, TRUE, TRUE)
               ELSE /\ Observe(n, d, TRUE, FALSE)
                    /\ UNCHANGED <<data, currentFrame, repaints>>
    /\ Fixed
    /\ UNCHANGED <<stopPulse, hasContext, canvas, preRenderedFrames, colors, setupImage>>

\* a faulty variant: the scaled bytes are put back on the canvas
CanvasAfterOpacityWriteBack(img, scaled) == [img EXCEPT !.px = scaled.px]

\* what render of the opacity variant leaves on the canvas: nothing is
\* written back (no putImageData), the scaled bytes live in the copy only
CanvasAfterOpacity(img, scaled) == img

\* opacity: the gate; lastUpdate is stamped; while stopPulse is set the call
\* returns false; otherwise the alpha bytes of a copy of the canvas are
\* scaled by the opacity factor and the copy becomes this.data
RenderOpacity(d, maxCalls) ==
    /\ variant = "opacity"
    /\ hasContext
    /\ calls < maxCalls
    /\ LET n == now + d IN
       IF SkipFrame(n, lastUpdate, updateIntervalOpacity)
       THEN /\ Observe(n, d, FALSE, FALSE)
            /\ UNCHANGED <<data, canvas, lastUpdate, repaints>>
       ELSE /\ lastUpdate' = StampLastUpdate(n, lastUpdate)
            /\ IF stopPulse
               THEN /\ Observe(n, d, TRUE, FALSE)
                    /\ UNCHANGED <<data, canvas, repaints>>
               ELSE /\ data' = ApplyOpacity(GetImageData(canvas, width, height), n)
                    /\ canvas' = CanvasAfterOpacity(canvas, data')
                    /\ repaints' = TriggerRepaint(repaints)
                    /\ Observe(n, d, TRUE, TRUE)
    /\ Fixed
    /\ UNCHANGED <<stopPulse, hasContext, preRenderedFrames, currentFrame, colors, setupImage>>

(***************************************************************************)
(* Specifications.                                                         *)
(***************************************************************************)
Next ==
    \/ OnAddLowFrameRate
    \/ OnAddPreRendered
    \/ OnAddOpacity
    \/ \E b \in BOOLEAN : SetStopPulse(b)
    \/ \E d \in Gaps : RenderStatic(d, MaxCalls)
    \/ \E d \in Gaps : RenderCSS(d, MaxCalls)
    \/ \E d \in Gaps : RenderLowFrameRate(d, MaxCalls)
    \/ \E d \in Gaps : RenderPreRendered(d, MaxCalls)
    \/ \E d \in Gaps : RenderOpacity(d, MaxCalls)

Spec == Init /\ [][Next]_vars

\* one pre-rendered instance followed over more than frameCount frames
NextPre ==
    \/ OnAddPreRendered
    \/ \E b \in BOOLEAN : SetStopPulse(b)
    \/ \E d \in PreGaps : RenderPreRendered(d, MaxCallsPre)

SpecPre == InitPre /\ [][NextPre]_vars

(***************************************************************************)
(* Properties.                                                             *)
(***************************************************************************)
RGB(c) == <<c[1], c[2], c[3]>>

\* a step is a render() call
RenderStep == op' = "render" /\ calls' = calls + 1

\* C1 as stated: in every variant, when two consecutive render() calls are
\* less than the variant's throttle interval apart, the second returns
\* false, whatever the first returned.
C1SecondCallWithinIntervalSkips ==
    (calls >= 2 /\ (variant \in ThrottledVariants => gap < IntervalOf(variant)))
        => ~ret

\* C1 amended: in every variant, when two consecutive render() calls are less
\* than the variant's throttle interval apart and the first passed the
\* throttle gate (it stamped lastUpdate), the second returns false; the
\* static and CSS variants always return false.
C1SecondCallAfterAdmittedSkips ==
    (calls >= 2 /\ (variant \in ThrottledVariants =>
                        gap < IntervalOf(variant) /\ prevAdmitted))
        => ~ret

C1Witness ==
    /\ variant = "lowFrameRate"
    /\ op = "render"
    /\ calls >= 2
    /\ prevAdmitted
    /\ gap = 60
    /\ ~ret

\* C2 as stated: in a throttled variant a render() call that passes the gate
\* returns true and leaves lastUpdate at the clock, in every reachable state.
C2AdmittedCallReturnsTrue ==
    (op = "render" /\ variant \in ThrottledVariants /\ admitted)
        => (ret /\ lastUpdate = now)

\* the cases in which a call that passed the gate draws nothing
Suppressed ==
    \/ variant = "opacity" /\ stopPulse
    \/ variant = "preRendered"
         /\ (preRenderedFrames.isNull \/ Len(preRenderedFrames.items) = 0)

\* C2 amended: in a throttled variant a render() call made when now -
\* lastUpdate >= interval sets lastUpdate to now; it returns true, requests a
\* repaint and updates data (low-frame-rate: read back from the redrawn
\* canvas; pre-rendered: the frame at the index; opacity: the canvas's RGB
\* bytes) unless the variant is opacity with stopPulse set or pre-rendered
\* with no frames, in which case it returns false and leaves data alone.
C2AdmittedCall ==
    [][ (RenderStep /\ variant \in ThrottledVariants
                    /\ now' - lastUpdate >= IntervalOf(variant))
        => /\ lastUpdate' = now'
           /\ IF Suppressed
              THEN ~ret' /\ data' = data /\ repaints' = repaints
              ELSE /\ ret'
                   /\ repaints' = repaints + 1
                   /\ variant = "lowFrameRate" => data'.px = canvas'.px /\ Visible(data')
                   /\ variant = "preRendered" => data' = preRenderedFrames.items[currentFrame + 1]
                   /\ variant = "opacity" => \A i \in 1..3 : RGB(data'.px[i]) = RGB(canvas.px[i])
      ]_vars

C2Witness ==
    /\ variant = "opacity"
    /\ op = "render"
    /\ admitted
    /\ stopPulse
    /\ lastUpdate = now
    /\ ~ret
    /\ trueReturns >= 1

\* C3 as stated: while stopPulse is set, a render() call of a variant with a
\* stop flag returns false or produces fully transparent data.
C3StoppedRenderShowsNothing ==
    (op = "render" /\ variant \in ThrottledVariants /\ stopPulse /\ ret)
        => ~Visible(data)

\* C4: in the pre-rendered variant with frameCount frames built, the frame
\* index equals the number of admitted ticks modulo frameCount (so from index
\* 0 it is 0 again after exactly frameCount admitted ticks and not before),
\* and a render() call that returns false does not move the index.
C4FrameCycle ==
    /\ []( (variant = "preRendered" /\ ~preRenderedFrames.isNull
                /\ Len(preRenderedFrames.items) = frameCount)
            => currentFrame = trueReturns % frameCount )
    /\ [][ (RenderStep /\ ~ret') => currentFrame' = currentFrame ]_vars

C4Witness ==
    /\ variant = "preRendered"
    /\ Len(preRenderedFrames.items) = frameCount
    /\ trueReturns = frameCount
    /\ currentFrame = 0

\* C5: the number of repaint requests equals the number of render() calls
\* that returned true, and a call requests exactly one repaint when it
\* returns true and none when it returns false.
C5RepaintPerTrueReturn ==
    /\ [](repaints = trueReturns)
    /\ [][ RenderStep => repaints' = repaints + (IF ret' THEN 1 ELSE 0) ]_vars

C5Witness ==
    /\ op = "render"
    /\ ~ret
    /\ trueReturns >= 2
    /\ repaints = trueReturns

\* C6: whenever a colour set has been selected, it is the grey set if isGrey
\* holds, else the route-active (green) set if isCarrierVehicleOnRoute holds,
\* else the default (red) set; and the centre pixel the low-frame-rate variant
\* draws has the selected colour.
ExpectedRGB ==
    IF isGrey THEN GreyRGB
    ELSE IF isCarrierVehicleOnRoute THEN GreenRGB
    ELSE RedRGB

C6ColourPrecedence ==
    /\ colors # NoColors =>
         RGB(colors.inner) = ExpectedRGB /\ RGB(colors.outer) = ExpectedRGB
    /\ (variant = "lowFrameRate" /\ trueReturns > 0) =>
         RGB(data.px[1]) = ExpectedRGB

C6Witness ==
    /\ variant = "lowFrameRate"
    /\ isGrey
    /\ isCarrierVehicleOnRoute
    /\ trueReturns > 0
    /\ RGB(data.px[1]) = GreyRGB

\* C7: width and height stay 75 and the data buffer always has
\* width * height * 4 bytes.
C7BufferSize ==
    /\ width = 75
    /\ height = 75
    /\ data.len = width * height * 4

C7Witness ==
    /\ variant = "preRendered"
    /\ op = "render"
    /\ ret
    /\ Visible(data)
    /\ trueReturns >= 2

\* two clock values in the fade-out half of the same 2-second period
SameFadeOut(a, b) ==
    /\ a \div duration = b \div duration
    /\ 2 * (a % duration) >= duration
    /\ 2 * (b % duration) >= duration

\* C8: in the opacity variant, from one admitted tick to the next one in the
\* fade-out half of the same 2-second period, no pixel's alpha byte in data
\* increases.
C8FadeOutMonotone ==
    [][ (RenderStep /\ variant = "opacity" /\ ret' /\ lastTrue >= 0
                    /\ SameFadeOut(lastTrue, now'))
        => \A i \in 1..3 : data'.px[i][4] <= data.px[i][4]
      ]_vars

C8Witness ==
    /\ variant = "opacity"
    /\ contextBinding = "own"
    /\ op = "render"
    /\ ret
    /\ prevTrue >= 0
    /\ SameFadeOut(prevTrue, now)
    /\ data.px[1][4] > 0
    /\ data.px[1][4] < 255

\* C9: in the opacity variant render() leaves the canvas as onAdd left it,
\* and after an admitted tick every pixel of data has the canvas's R, G and B
\* bytes and its alpha byte scaled once by the factor of that tick's clock.
C9ScaledOnce ==
    (variant = "opacity" /\ trueReturns > 0) =>
        /\ canvas = setupImage
        /\ \A i \in 1..3 :
             data.px[i] = << setupImage.px[i][1], setupImage.px[i][2], setupImage.px[i][3],
                             ScaleAlpha(setupImage.px[i][4], lastTrue) >>

C9Witness ==
    /\ variant = "opacity"
    /\ contextBinding = "own"
    /\ trueReturns >= 2
    /\ op = "render"
    /\ ret
    /\ data.px[2][4] > 0
    /\ data.px[2][4] < 255

\* C10: in a throttled variant two render() calls that return true are at
\* least the variant's interval apart, and no call made at a clock below the
\* interval returns true.
C10TrueReturnsSpaced ==
    variant \in ThrottledVariants =>
        /\ prevTrue >= 0 => lastTrue - prevTrue >= IntervalOf(variant)
        /\ lastTrue >= 0 => lastTrue >= IntervalOf(variant)

C10Witness ==
    /\ variant = "lowFrameRate"
    /\ calls = 3
    /\ prevTrue = 100
    /\ lastTrue = 200

============================================================================
